---------------------------- MODULE Spec2Model ----------------------------
(***************************************************************************)
(* anihistory_backend: the list reconciliation engine (update_entries,     *)
(* delete_entries), the profile step (update_user_profile), the image      *)
(* materializer (S3Client::upload_to_s3) and the two HTTP handlers         *)
(* (user, update), as state machines over the three tables users, anime    *)
(* and lists, the blob store and the remote catalog.                       *)
(*                                                                         *)
(* Text (list names, URLs, file extensions) is a sequence of one-character *)
(* strings, so that to_lowercase, contains and split are computed.         *)
(* Option<T> is a sequence: <<>> is None and <<v>> is Some(v).             *)
(***************************************************************************)
EXTENDS Integers, Sequences, FiniteSets, TLC

VARIABLES
    users,      \* table users: set of User rows, key user_id
    anime,      \* table anime: set of Anime rows, key anime_id
    lists,      \* table lists: set of ListItem rows, key (user_id, anime_id)
    s3,         \* objects put to the bucket
    remote,     \* the catalog's list collection of each user id
    tasks,      \* the spawned update_entries tasks, in spawn order
    images,     \* the spawned cover upload tasks
    reqs,       \* the HTTP requests, by client
    faults,     \* number of failed outside calls so far
    call        \* a function evaluated on its own: Some([fn, arg, ret])

vars == <<users, anime, lists, s3, remote, tasks, images, reqs, faults, call>>

None == <<>>
Some(v) == <<v>>

-----------------------------------------------------------------------------
(* Bounds of the model *)

\* total number of entries in one fetched list collection
MaxEntries == 2
\* number of outside calls (catalog, store, bucket, download) that may fail
MaxFaults == 1

\* requests the server reads
MaxRequests == 2

-----------------------------------------------------------------------------
(* Text *)

Upper == <<"A","B","C","D","E","F","G","H","I","J","K","L","M",
           "N","O","P","Q","R","S","T","U","V","W","X","Y","Z">>
Lower == <<"a","b","c","d","e","f","g","h","i","j","k","l","m",
           "n","o","p","q","r","s","t","u","v","w","x","y","z">>

\* one character of str::to_lowercase
lower_char(c) ==
    IF \E k \in DOMAIN Upper : Upper[k] = c
    THEN Lower[CHOOSE k \in DOMAIN Upper : Upper[k] = c]
    ELSE c

to_lowercase(s) == [k \in DOMAIN s |-> lower_char(s[k])]

\* str::contains: pat is a contiguous part of s
contains(s, pat) ==
    \E k \in 0..(Len(s) - Len(pat)) : SubSeq(s, k + 1, k + Len(pat)) = pat

\* str::split(sep).collect(): the parts between the separators, at least one
RECURSIVE split_from(_, _, _)
split_from(s, sep, cur) ==
    IF s = <<>> THEN <<cur>>
    ELSE IF Head(s) = sep THEN <<cur>> \o split_from(Tail(s), sep, <<>>)
    ELSE split_from(Tail(s), sep, Append(cur, Head(s)))

split(s, sep) == split_from(s, sep, <<>>)

\* the text as one string, for format!
RECURSIVE Str(_)
Str(s) == IF s = <<>> THEN "" ELSE Head(s) \o Str(Tail(s))

COMPLETED == <<"c","o","m","p","l","e","t","e","d">>
WATCHING == <<"w","a","t","c","h","i","n","g">>

\* the filter of delete_entries and of update_entries
IsRetainedDropCase(name) ==
    contains(name, COMPLETED) \/ contains(name, WATCHING)

IsRetained(name) ==
    \/ contains(to_lowercase(name), COMPLETED)
    \/ contains(to_lowercase(name), WATCHING)

\* get_ext: the second '.'-part of the last '/'-part; indexing panics when
\* the last part holds no '.'
Panic == <<"!">>

get_ext_or_empty(url) ==
    LET link_parts == split(url, "/")
        parts == split(link_parts[Len(link_parts)], ".")
    IN  IF Len(parts) < 2 THEN <<>> ELSE parts[2]

get_ext(url) ==
    LET link_parts == split(url, "/")
        parts == split(link_parts[Len(link_parts)], ".")
    IN  IF Len(parts) < 2 THEN Panic ELSE parts[2]

\* naive_mime
naive_mime(ext) ==
    IF contains(ext, <<"j","p">>) THEN "image/jpeg" ELSE "image/" \o Str(ext)

-----------------------------------------------------------------------------
(* Dates *)

IsLeap(y) == (y % 4 = 0 /\ y % 100 # 0) \/ y % 400 = 0

DaysIn(y, m) ==
    IF m = 2 THEN (IF IsLeap(y) THEN 29 ELSE 28)
    ELSE IF m \in {4, 6, 9, 11} THEN 30 ELSE 31

\* NaiveDate::from_ymd_opt
from_ymd_opt(y, m, d) ==
    IF m \in 1..12 /\ d >= 1 /\ d <= DaysIn(y, m)
    THEN Some([year |-> y, month |-> m, day |-> d])
    ELSE None

construct_date_day_defaulted(date) ==
    IF date.year = None THEN None
    ELSE IF date.month = None THEN None
    ELSE IF date.day = None THEN from_ymd_opt(date.year[1], date.month[1], 1)
    ELSE from_ymd_opt(date.year[1], date.month[1], date.day[1])

\* construct_date: a date only when the three parts are present
construct_date(date) ==
    IF date.year = None THEN None
    ELSE IF date.month = None THEN None
    ELSE IF date.day = None THEN None
    ELSE from_ymd_opt(date.year[1], date.month[1], date.day[1])

Date(y, m, d) == [year |-> y, month |-> m, day |-> d]

-----------------------------------------------------------------------------
(* The remote catalog: media, the user's entry for a media, users *)

Url(host, file) == host \o <<"/">> \o file

\* MediaInfo by media id. The cover of media 2 has two '.' in its file
\* name, the cover of media 3 has none.
MediaTable ==
    <<  [id |-> 1, description |-> "d1", average_score |-> Some(71),
         cover_image |-> Url(<<"c">>, <<"l","/","1",".","j","p","g">>),
         title |-> [user_preferred |-> Some("t1"), english |-> Some("e1"),
                    romaji |-> Some("r1"), native |-> None]],
        [id |-> 2, description |-> "d2", average_score |-> None,
         cover_image |-> Url(<<"c">>, <<"2",".","v","2",".","p","n","g">>),
         title |-> [user_preferred |-> None, english |-> None,
                    romaji |-> Some("r2"), native |-> Some("n2")]],
        [id |-> 3, description |-> "d3", average_score |-> Some(64),
         cover_image |-> Url(<<"c",".","d">>, <<"3">>),
         title |-> [user_preferred |-> Some("t3"), english |-> None,
                    romaji |-> None, native |-> None]] >>

MediaIds == DOMAIN MediaTable

\* score and dates of the user's entry for a media
EntryTable ==
    <<  [score_raw |-> Some(80),
         started_at |-> Date(Some(2020), Some(1), Some(1)),
         completed_at |-> Date(Some(2020), Some(2), Some(30))],
        [score_raw |-> None,
         started_at |-> Date(Some(2020), Some(1), None),
         completed_at |-> Date(Some(2020), Some(2), Some(29))],
        [score_raw |-> Some(10),
         started_at |-> Date(None, Some(3), Some(1)),
         completed_at |-> Date(Some(2021), Some(13), Some(1))] >>

\* a MediaList entry: in the state an entry is its media id
Entry(a) ==
    [media |-> MediaTable[a], score_raw |-> EntryTable[a].score_raw,
     started_at |-> EntryTable[a].started_at,
     completed_at |-> EntryTable[a].completed_at]

\* the names a sub-list may have
NameSet ==
    {   <<"W","a","t","c","h","i","n","g">>,
        <<"C","O","M","P","L","E","T","E","D"," ","T","V">>,
        <<"D","r","o","p","p","e","d">> }

UserIds == {1, 2}

\* the catalog's User of a user name, None for a name it does not know
CatalogUser(username) ==
    IF username = "alice"
    THEN Some([id |-> 1, name |-> "alice",
               avatar |-> Url(<<"c">>, <<"a",".","p","n","g">>)])
    ELSE IF username = "bob"
    THEN Some([id |-> 2, name |-> "bob",
               avatar |-> Url(<<"c">>, <<"b",".","j","p","g">>)])
    ELSE None

Usernames == {"alice", "bob", "ghost"}

-----------------------------------------------------------------------------
(* Rows *)

S3Base == "https://s3.amazonaws.com/anihistory-images/"

S3KeyDashed(prefix, id, ext) ==
    "assets/images/" \o prefix \o "-" \o ToString(id) \o "." \o Str(ext)

\* the key upload_to_s3 puts under
S3Key(prefix, id, ext) ==
    "assets/images/" \o prefix \o "_" \o ToString(id) \o "." \o Str(ext)

\* the User row update_user_profile builds
NewUser(user) ==
    [user_id |-> user.id, name |-> user.name,
     avatar_s3 |-> S3Base \o "assets/images/user_" \o ToString(user.id)
                       \o "." \o Str(get_ext(user.avatar)),
     avatar_anilist |-> Str(user.avatar)]

\* the Anime row update_entries builds of an entry
NewAnime(a) ==
    LET media == Entry(a).media
    IN  [anime_id |-> media.id, description |-> media.description,
         cover_s3 |-> S3Base \o "assets/images/anime_" \o ToString(media.id)
                          \o "." \o Str(get_ext(media.cover_image)),
         cover_anilist |-> Str(media.cover_image),
         average |-> media.average_score, native |-> media.title.native,
         romaji |-> media.title.romaji, english |-> media.title.english]

\* the ListItem row update_entries builds of an entry
NewList(id, a) ==
    LET entry == Entry(a)
    IN  [user_id |-> id, anime_id |-> entry.media.id,
         user_title |-> entry.media.title.user_preferred,
         start_day |-> construct_date(entry.started_at),
         end_day |-> construct_date(entry.completed_at),
         score |-> entry.score_raw]

\* a ListItem row as an earlier reconciliation left it, from older user data
OldList(id, a) ==
    [user_id |-> id, anime_id |-> a, user_title |-> Some("old"),
     start_day |-> None, end_day |-> None, score |-> None]

\* INSERT ... ON CONFLICT (key) DO UPDATE: the row replaces the row of its key
UpsertUser(table, row) ==
    {r \in table : r.user_id # row.user_id} \cup {row}

UpsertAnime(table, row) ==
    {r \in table : r.anime_id # row.anime_id} \cup {row}

UpsertListKeepOld(table, row) ==
    IF \E r \in table : r.user_id = row.user_id /\ r.anime_id = row.anime_id
    THEN table ELSE table \cup {row}

UpsertList(table, row) ==
    {r \in table : ~(r.user_id = row.user_id /\ r.anime_id = row.anime_id)}
        \cup {row}

DeleteSwapped(table, user_id, anime_id) ==
    {r \in table : ~(r.user_id = anime_id /\ r.anime_id = user_id)}

\* DELETE FROM lists WHERE user_id = $1 AND anime_id = $2
DeleteFromList(table, user_id, anime_id) ==
    {r \in table : ~(r.user_id = user_id /\ r.anime_id = anime_id)}

ListRowsOfAnyone(id) == lists

\* SELECT ... FROM lists WHERE user_id = $1
ListRowsOf(id) == {r \in lists : r.user_id = id}

\* the media ids of the list rows of a user
RowIds(id) == {r.anime_id : r \in ListRowsOf(id)}

\* the rows and the extension of each media, computed once
CoverExt == [a \in MediaIds |-> get_ext(MediaTable[a].cover_image)]

AnimeRow == [a \in MediaIds |-> NewAnime(a)]

ListRow == [id \in UserIds |-> [a \in MediaIds |-> NewList(id, a)]]

-----------------------------------------------------------------------------
(* delete_entries: the retained lists, sorted, and the binary search *)

RECURSIVE insert_sorted(_, _)
insert_sorted(sorted, a) ==
    IF sorted = <<>> THEN <<a>>
    ELSE IF a <= Head(sorted) THEN <<a>> \o sorted
    ELSE <<Head(sorted)>> \o insert_sorted(Tail(sorted), a)

\* entries.sort_unstable_by(|a, b| a.media.id.cmp(&b.media.id))
RECURSIVE sort_by_id(_)
sort_by_id(entries) ==
    IF entries = <<>> THEN <<>>
    ELSE insert_sorted(sort_by_id(Tail(entries)), Head(entries))

NoSort(entries) == entries

SortEntries(entries) == sort_by_id(entries)

AllLists(ls) == ls

\* the lists the filter keeps, in their order
RetainedLists(ls) == SelectSeq(ls, LAMBDA l : IsRetained(l.name))

\* used_lists: the retained lists, each with its entries sorted by media id
UsedLists(ls) ==
    LET kept == RetainedLists(ls)
    IN  [k \in DOMAIN kept |->
            [kept[k] EXCEPT !.entries = SortEntries(kept[k].entries)]]

\* entries.binary_search_by(|e| e.media.id.cmp(&anime_id)).is_ok(), on the
\* part [lo, hi) of the entries, counted from 0
RECURSIVE binary_search(_, _, _, _)
binary_search(entries, lo, hi, anime_id) ==
    IF lo >= hi THEN FALSE
    ELSE LET mid == lo + ((hi - lo) \div 2)
         IN  IF entries[mid + 1] = anime_id THEN TRUE
             ELSE IF entries[mid + 1] < anime_id
             THEN binary_search(entries, mid + 1, hi, anime_id)
             ELSE binary_search(entries, lo, mid, anime_id)

FoundInFirstOnly(used, anime_id) ==
    /\ used # <<>>
    /\ binary_search(used[1].entries, 0, Len(used[1].entries), anime_id)

\* the loop over used_lists: found in one of them
Found(used, anime_id) ==
    \E k \in DOMAIN used :
        binary_search(used[k].entries, 0, Len(used[k].entries), anime_id)

\* the entries the loops of update_entries visit, in their order: every
\* entry of every retained list, as fetched
RECURSIVE Flatten(_)
Flatten(ls) ==
    IF ls = <<>> THEN <<>> ELSE Head(ls).entries \o Flatten(Tail(ls))

Todo(ls) == Flatten(RetainedLists(ls))

\* the media ids of the retained lists of a collection
RetainedIds(ls) == {Todo(ls)[k] : k \in DOMAIN Todo(ls)}

-----------------------------------------------------------------------------
(* update_entries as a task *)

Terminal == {"Done", "Failed", "Panicked"}

\* a task as tokio::spawn leaves it: update_entries about to call get_lists
NewTask(id) ==
    [id |-> id, pc |-> "ListFetch",
     lists |-> <<>>,        \* the fetched collection
     used |-> <<>>,         \* used_lists of delete_entries
     todo |-> <<>>,         \* the entries the upsert loops visit
     stream |-> None,       \* Some(rows the stream has yet to yield)
     i |-> 0, stage |-> "",  \* the entry at hand and its next upsert
     \* what the task did so far
     snap |-> {},           \* media ids of the rows the stream was opened on
     deleted |-> {},        \* media ids a delete was issued for
     delFailed |-> {},      \* media ids whose delete failed
     log |-> <<>>,          \* the upserts and spawns, in order
     cause |-> "",          \* what made it fail
     overlap |-> \E k \in DOMAIN tasks :
                    tasks[k].id = id /\ tasks[k].pc \notin Terminal]

Running(t) == t \in DOMAIN tasks /\ tasks[t].pc \notin Terminal

\* tokio::spawn(update_entries(id, ..))
Spawned(id) ==
    Append([k \in DOMAIN tasks |->
                IF tasks[k].id = id /\ tasks[k].pc \notin Terminal
                THEN [tasks[k] EXCEPT !.overlap = TRUE] ELSE tasks[k]],
           NewTask(id))

Fault == faults < MaxFaults /\ faults' = faults + 1

NoFault == faults' = faults

Ev(op, a, ok) == [op |-> op, a |-> a, ok |-> ok]

FetchListsOrEmpty(t) ==
    /\ Running(t) /\ tasks[t].pc = "ListFetch"
    /\ \/ /\ tasks' = [tasks EXCEPT ![t] =
                        [@ EXCEPT !.pc = "Diffing",
                                  !.lists = remote[tasks[t].id],
                                  !.used = UsedLists(remote[tasks[t].id]),
                                  !.todo = Todo(remote[tasks[t].id])]]
          /\ NoFault
       \/ /\ tasks' = [tasks EXCEPT ![t] =
                        [@ EXCEPT !.pc = "Diffing", !.cause = "fetch"]]
          /\ Fault
    /\ UNCHANGED <<users, anime, lists, s3, remote, images, reqs, call>>

\* get_lists(id).await?: the collection, or the error ends the task
FetchLists(t) ==
    /\ Running(t) /\ tasks[t].pc = "ListFetch"
    /\ \/ /\ tasks' = [tasks EXCEPT ![t] =
                        [@ EXCEPT !.pc = "Diffing",
                                  !.lists = remote[tasks[t].id],
                                  !.used = UsedLists(remote[tasks[t].id]),
                                  !.todo = Todo(remote[tasks[t].id])]]
          /\ NoFault
       \/ /\ tasks' = [tasks EXCEPT ![t] =
                        [@ EXCEPT !.pc = "Failed", !.cause = "fetch"]]
          /\ Fault
    /\ UNCHANGED <<users, anime, lists, s3, remote, images, reqs, call>>

OpenStreamOrEmpty(t) ==
    /\ Running(t) /\ tasks[t].pc = "Diffing" /\ tasks[t].stream = None
    /\ \/ /\ tasks' = [tasks EXCEPT ![t] =
                        [@ EXCEPT !.stream = Some(ListRowsOf(tasks[t].id)),
                                  !.snap = RowIds(tasks[t].id)]]
          /\ NoFault
       \/ /\ tasks' = [tasks EXCEPT ![t] =
                        [@ EXCEPT !.stream = Some({}), !.cause = "stream"]]
          /\ Fault
    /\ UNCHANGED <<users, anime, lists, s3, remote, images, reqs, call>>

\* the first try_next of delete_entries: the query runs on the rows of the
\* user as they are now, or fails
OpenStream(t) ==
    /\ Running(t) /\ tasks[t].pc = "Diffing" /\ tasks[t].stream = None
    /\ \/ /\ tasks' = [tasks EXCEPT ![t] =
                        [@ EXCEPT !.stream = Some(ListRowsOf(tasks[t].id)),
                                  !.snap = RowIds(tasks[t].id)]]
          /\ NoFault
       \/ /\ tasks' = [tasks EXCEPT ![t] =
                        [@ EXCEPT !.pc = "Failed", !.cause = "stream"]]
          /\ Fault
    /\ UNCHANGED <<users, anime, lists, s3, remote, images, reqs, call>>

\* where update_entries goes once delete_entries returned Ok
AfterScan(task) ==
    IF task.todo = <<>>
    THEN [task EXCEPT !.pc = "Done"]
    ELSE [task EXCEPT !.pc = "Converging", !.i = 1, !.stage = "anime"]

\* one turn of the while let loop of delete_entries: the stream yields a
\* row, which is deleted when no used list holds its anime_id; or it ends;
\* or it fails
ScanRow(t) ==
    /\ Running(t) /\ tasks[t].pc = "Diffing" /\ tasks[t].stream # None
    /\ LET task == tasks[t]
           rows == task.stream[1]
       IN  \/ /\ rows = {}
              /\ tasks' = [tasks EXCEPT ![t] = AfterScan(task)]
              /\ NoFault /\ UNCHANGED lists
           \/ /\ tasks' = [tasks EXCEPT ![t] =
                            [@ EXCEPT !.pc = "Failed", !.cause = "stream"]]
              /\ Fault /\ UNCHANGED lists
           \/ \E r \in rows :
                /\ Found(task.used, r.anime_id)
                /\ tasks' = [tasks EXCEPT ![t] =
                                [@ EXCEPT !.stream = Some(rows \ {r})]]
                /\ NoFault /\ UNCHANGED lists
           \/ \E r \in rows :
                /\ ~Found(task.used, r.anime_id)
                /\ \/ /\ lists' = DeleteFromList(lists, r.user_id, r.anime_id)
                      /\ tasks' = [tasks EXCEPT ![t] =
                            [@ EXCEPT !.stream = Some(rows \ {r}),
                                      !.deleted = @ \cup {r.anime_id}]]
                      /\ NoFault
                   \/ /\ UNCHANGED lists
                      /\ tasks' = [tasks EXCEPT ![t] =
                            [@ EXCEPT !.stream = Some(rows \ {r}),
                                      !.deleted = @ \cup {r.anime_id},
                                      !.delFailed = @ \cup {r.anime_id}]]
                      /\ Fault
    /\ UNCHANGED <<users, anime, s3, remote, images, reqs, call>>

\* the cover upload task update_entries spawns for the entry at hand
NewImage(t, i, a) ==
    [task |-> t, i |-> i, prefix |-> "anime", id |-> MediaTable[a].id,
     url |-> MediaTable[a].cover_image, status |-> "Running"]

UpsertAnimeStepSpawnAlways(t) ==
    /\ Running(t) /\ tasks[t].pc = "Converging" /\ tasks[t].stage = "anime"
    /\ LET task == tasks[t]
           a == task.todo[task.i]
       IN  IF CoverExt[a] = Panic
           THEN /\ tasks' = [tasks EXCEPT ![t] =
                              [@ EXCEPT !.pc = "Panicked", !.cause = "get_ext"]]
                /\ NoFault /\ UNCHANGED <<anime, images>>
           ELSE \/ /\ anime' = UpsertAnime(anime, AnimeRow[a])
                   /\ images' = images \cup {NewImage(t, task.i, a)}
                   /\ tasks' = [tasks EXCEPT ![t] =
                        [@ EXCEPT !.stage = "list",
                                  !.log = @ \o <<Ev("anime", a, TRUE),
                                                 Ev("spawn", a, TRUE)>>]]
                   /\ NoFault
                \/ /\ UNCHANGED anime
                   /\ images' = images \cup {NewImage(t, task.i, a)}
                   /\ tasks' = [tasks EXCEPT ![t] =
                        [@ EXCEPT !.stage = "list",
                                  !.log = Append(@, Ev("anime", a, FALSE))]]
                   /\ Fault
    /\ UNCHANGED <<users, lists, s3, remote, reqs, call>>

\* get_ext of the cover, then insert_anime; Ok spawns the cover upload
UpsertAnimeStep(t) ==
    /\ Running(t) /\ tasks[t].pc = "Converging" /\ tasks[t].stage = "anime"
    /\ LET task == tasks[t]
           a == task.todo[task.i]
       IN  IF CoverExt[a] = Panic
           THEN /\ tasks' = [tasks EXCEPT ![t] =
                              [@ EXCEPT !.pc = "Panicked", !.cause = "get_ext"]]
                /\ NoFault /\ UNCHANGED <<anime, images>>
           ELSE \/ /\ anime' = UpsertAnime(anime, AnimeRow[a])
                   /\ images' = images \cup {NewImage(t, task.i, a)}
                   /\ tasks' = [tasks EXCEPT ![t] =
                        [@ EXCEPT !.stage = "list",
                                  !.log = @ \o <<Ev("anime", a, TRUE),
                                                 Ev("spawn", a, TRUE)>>]]
                   /\ NoFault
                \/ /\ UNCHANGED <<anime, images>>
                   /\ tasks' = [tasks EXCEPT ![t] =
                        [@ EXCEPT !.stage = "list",
                                  !.log = Append(@, Ev("anime", a, FALSE))]]
                   /\ Fault
    /\ UNCHANGED <<users, lists, s3, remote, reqs, call>>

AfterListStopOnErr(task, ok) ==
    LET logged == [task EXCEPT !.log = Append(@, Ev("list", task.todo[task.i], ok))]
    IN  IF ~ok
        THEN [logged EXCEPT !.pc = "Failed", !.stage = ""]
        ELSE IF task.i = Len(task.todo)
        THEN [logged EXCEPT !.pc = "Done", !.stage = ""]
        ELSE [logged EXCEPT !.i = @ + 1, !.stage = "anime"]

AfterListThenDelete(task, ok) ==
    LET logged == [task EXCEPT !.log = Append(@, Ev("list", task.todo[task.i], ok))]
    IN  IF task.i = Len(task.todo)
        THEN [logged EXCEPT !.pc = "Diffing", !.stream = None,
                            !.todo = <<>>, !.stage = ""]
        ELSE [logged EXCEPT !.i = @ + 1, !.stage = "anime"]

\* the task after the insert_list of its entry at hand returned
AfterList(task, ok) ==
    LET logged == [task EXCEPT !.log = Append(@, Ev("list", task.todo[task.i], ok))]
    IN  IF task.i = Len(task.todo)
        THEN [logged EXCEPT !.pc = "Done", !.stage = ""]
        ELSE [logged EXCEPT !.i = @ + 1, !.stage = "anime"]

UpsertListStepAwaiting(t) ==
    /\ Running(t) /\ tasks[t].pc = "Converging" /\ tasks[t].stage = "list"
    /\ \A img \in images :
        (img.task = t /\ img.i = tasks[t].i) => img.status = "Ok"
    /\ LET task == tasks[t]
           a == task.todo[task.i]
       IN  \/ /\ lists' = UpsertList(lists, ListRow[task.id][a])
              /\ tasks' = [tasks EXCEPT ![t] = AfterList(task, TRUE)]
              /\ NoFault
           \/ /\ UNCHANGED lists
              /\ tasks' = [tasks EXCEPT ![t] = AfterList(task, FALSE)]
              /\ Fault
    /\ UNCHANGED <<users, anime, s3, remote, images, reqs, call>>

\* construct_date of both dates, then insert_list; the loop goes on to the
\* next entry whatever the result, and update_entries returns Ok after the
\* last
UpsertListStep(t) ==
    /\ Running(t) /\ tasks[t].pc = "Converging" /\ tasks[t].stage = "list"
    /\ LET task == tasks[t]
           a == task.todo[task.i]
       IN  \/ /\ lists' = UpsertList(lists, ListRow[task.id][a])
              /\ tasks' = [tasks EXCEPT ![t] = AfterList(task, TRUE)]
              /\ NoFault
           \/ /\ UNCHANGED lists
              /\ tasks' = [tasks EXCEPT ![t] = AfterList(task, FALSE)]
              /\ Fault
    /\ UNCHANGED <<users, anime, s3, remote, images, reqs, call>>

-----------------------------------------------------------------------------
(* S3Client::upload_to_s3 *)

\* the object put_object writes
S3Object(prefix, id, url) ==
    [bucket |-> "anihistory-images",
     key |-> S3Key(prefix, id, get_ext(url)),
     content_type |-> naive_mime(get_ext(url)),
     acl |-> None]

\* the object of the cover of each media whose cover has an extension,
\* computed once
CoverObject ==
    [a \in {m \in MediaIds : CoverExt[m] # Panic} |->
        S3Object("anime", MediaTable[a].id, MediaTable[a].cover_image)]

\* a spawned cover upload runs: download_image, then put_object; either may
\* fail, which the task logs
CoverUpload(img) ==
    /\ img \in images /\ img.status = "Running"
    /\ \/ /\ s3' = s3 \cup {CoverObject[img.id]}
          /\ images' = (images \ {img}) \cup {[img EXCEPT !.status = "Ok"]}
          /\ NoFault
       \/ /\ UNCHANGED s3
          /\ images' = (images \ {img}) \cup {[img EXCEPT !.status = "Err"]}
          /\ Fault
    /\ UNCHANGED <<users, anime, lists, remote, tasks, reqs, call>>

-----------------------------------------------------------------------------
(* The reconciliation engine alone: reconciliations of one user, one after
   the other, over a store an earlier reconciliation left *)

\* the sequences of at most n media ids
EntrySeqs(n) == UNION {[1..m -> MediaIds] : m \in 0..n}

\* the list collections the catalog may hold for a user: no list, one list
\* of at most MaxEntries entries, or two lists of different names, neither
\* empty, of MaxEntries entries in all
Collections ==
    {<<>>}
    \cup {<<[name |-> n, entries |-> e]>> :
            n \in NameSet, e \in EntrySeqs(MaxEntries)}
    \cup {<<[name |-> c[1], entries |-> c[3]], [name |-> c[2], entries |-> c[4]]>> :
            c \in {d \in NameSet \X NameSet \X EntrySeqs(MaxEntries)
                                \X EntrySeqs(MaxEntries) :
                        /\ d[1] # d[2] /\ d[3] # <<>> /\ d[4] # <<>>
                        /\ Len(d[3]) + Len(d[4]) <= MaxEntries}}

\* the user the engine reconciles, and another one whose rows are in the store
RecUser == CatalogUser("alice")[1].id
OtherUser == CatalogUser("bob")[1].id

\* an Anime row as an earlier reconciliation left it, from an older
\* description and cover
OldAnime(a) ==
    [anime_id |-> a, description |-> "old",
     cover_s3 |-> S3Base \o "assets/images/anime_" \o ToString(a) \o ".gif",
     cover_anilist |-> "c/old.gif",
     average |-> None, native |-> None, romaji |-> None, english |-> None]

TypeOK ==
    /\ \A r \in lists : r.user_id \in UserIds /\ r.anime_id \in MediaIds
    /\ \A r \in anime : r.anime_id \in MediaIds
    /\ \A r \in users : r.user_id \in UserIds
    /\ faults \in 0..MaxFaults
    /\ \A t \in DOMAIN tasks :
        tasks[t].pc \in {"ListFetch", "Diffing", "Converging"} \cup Terminal

\* the store holds the profiles of both users, old list rows of RecUser for
\* any set of media, one row of OtherUser, and the Anime rows of these
Init ==
    /\ users = {NewUser(CatalogUser("alice")[1]), NewUser(CatalogUser("bob")[1])}
    /\ \E stored \in SUBSET MediaIds :
        /\ lists = {OldList(RecUser, a) : a \in stored} \cup {OldList(OtherUser, 1)}
        /\ anime = {OldAnime(a) : a \in stored \cup {1}}
    /\ s3 = {}
    /\ \E c \in Collections :
        remote = [u \in UserIds |-> IF u = RecUser THEN c ELSE <<>>]
    /\ tasks = <<>>
    /\ images = {}
    /\ reqs = <<>>
    /\ faults = 0
    /\ call = None

\* reconcile(RecUser) is invoked: tokio::spawn(update_entries(id, ..))
Dispatch ==
    /\ tasks = <<>>
    /\ tasks' = Spawned(RecUser)
    /\ UNCHANGED <<users, anime, lists, s3, remote, images, reqs, faults, call>>

Next ==
    \/ Dispatch
    \/ \E t \in DOMAIN tasks : FetchLists(t)
    \/ \E t \in DOMAIN tasks : OpenStream(t)
    \/ \E t \in DOMAIN tasks : ScanRow(t)
    \/ \E t \in DOMAIN tasks : UpsertAnimeStep(t)
    \/ \E t \in DOMAIN tasks : UpsertListStep(t)
    \/ \E img \in images : CoverUpload(img)

Spec == Init /\ [][Next]_vars

-----------------------------------------------------------------------------
(* The engine run twice in sequence over an unchanged catalog. The cover
   uploads the runs spawn stay pending here: they write to the bucket only. *)

\* reconcile(RecUser) is invoked again once the first invocation has ended
DispatchAgain ==
    /\ Len(tasks) = 1 /\ tasks[1].pc \in Terminal
    /\ tasks' = Spawned(RecUser)
    /\ UNCHANGED <<users, anime, lists, s3, remote, images, reqs, faults, call>>

NextTwice ==
    \/ Dispatch
    \/ DispatchAgain
    \/ \E t \in DOMAIN tasks : FetchLists(t)
    \/ \E t \in DOMAIN tasks : OpenStream(t)
    \/ \E t \in DOMAIN tasks : ScanRow(t)
    \/ \E t \in DOMAIN tasks : UpsertAnimeStep(t)
    \/ \E t \in DOMAIN tasks : UpsertListStep(t)

SpecTwice == Init /\ [][NextTwice]_vars

-----------------------------------------------------------------------------
(* The engine triggered twice for the same user, the second reconciliation
   spawned while the first is running. The cover uploads stay pending. *)

\* a duplicate trigger: tokio::spawn(update_entries(id, ..)) once more
DispatchDuplicate ==
    /\ Len(tasks) = 1 /\ tasks[1].pc \notin Terminal
    /\ tasks' = Spawned(RecUser)
    /\ UNCHANGED <<users, anime, lists, s3, remote, images, reqs, faults, call>>

NextConc ==
    \/ Dispatch
    \/ DispatchDuplicate
    \/ \E t \in DOMAIN tasks : FetchLists(t)
    \/ \E t \in DOMAIN tasks : OpenStream(t)
    \/ \E t \in DOMAIN tasks : ScanRow(t)
    \/ \E t \in DOMAIN tasks : UpsertAnimeStep(t)
    \/ \E t \in DOMAIN tasks : UpsertListStep(t)

SpecConc == Init /\ [][NextConc]_vars

-----------------------------------------------------------------------------
(* The engine triggered twice for the same user while the user edits the
   lists at the catalog: the second reconciliation is spawned while the
   first is running, and the catalog changes between their two fetches.
   The cover uploads stay pending. *)

\* the entries without the one at position k
RemoveAt(entries, k) ==
    SubSeq(entries, 1, k - 1) \o SubSeq(entries, k + 1, Len(entries))

\* the number of entries of the collection
Size(c) == Len(Flatten(c))

\* the collections one edit away: an entry taken off a list, or an entry
\* added at the end of a list
Edits(c) ==
    UNION {{[c EXCEPT ![n].entries = RemoveAt(@, k)] :
                k \in DOMAIN c[n].entries} : n \in DOMAIN c}
    \cup UNION {{[c EXCEPT ![n].entries = Append(@, a)] : a \in MediaIds} :
                n \in {m \in DOMAIN c : Size(c) < MaxEntries}}

\* the user edits the lists after one reconciliation has fetched them and
\* before the other does: get_lists answers with the lists as they are
\* when it is asked
RemoteChange ==
    /\ Len(tasks) = 2
    /\ \E t1, t2 \in DOMAIN tasks :
        /\ tasks[t1].pc \in {"Diffing", "Converging", "Done", "Panicked"}
        /\ tasks[t1].lists = remote[RecUser]
        /\ tasks[t2].pc = "ListFetch"
    /\ \E c \in Edits(remote[RecUser]) :
        remote' = [remote EXCEPT ![RecUser] = c]
    /\ UNCHANGED <<users, anime, lists, s3, tasks, images, reqs, faults, call>>

NextDrift ==
    \/ Dispatch
    \/ DispatchDuplicate
    \/ RemoteChange
    \/ \E t \in DOMAIN tasks : FetchLists(t)
    \/ \E t \in DOMAIN tasks : OpenStream(t)
    \/ \E t \in DOMAIN tasks : ScanRow(t)
    \/ \E t \in DOMAIN tasks : UpsertAnimeStep(t)
    \/ \E t \in DOMAIN tasks : UpsertListStep(t)

SpecDrift == Init /\ [][NextDrift]_vars

-----------------------------------------------------------------------------
(* The two handlers, POST /users/:username (update) and GET /users/:username
   (user), over a catalog that knows alice and bob; the tasks a POST spawns
   run beside the requests that follow. *)

\* a request the server has read
NewReq(method, name) ==
    [method |-> method, name |-> name,
     pc |-> "",             \* where its handler stands
     status |-> 0,          \* the status of its response, once produced
     user |-> None,         \* Some(the user get_id resolved)
     task |-> 0,            \* the update_entries task it spawned
     body |-> None,         \* Some(the RestResponse)
     cause |-> ""]          \* the call that made it fail

Reply(req, status) == [req EXCEPT !.pc = "Replied", !.status = status]

AfterGetIdNoneAsError(req, found) ==
    IF found = None
    THEN Reply(req, 500)
    ELSE [req EXCEPT !.pc = "Profile", !.user = found]

\* update's match on Ok(found) of get_id: None answers 404, Some(user) goes
\* on to update_user_profile
AfterGetId(req, found) ==
    IF found = None
    THEN Reply(req, 404)
    ELSE [req EXCEPT !.pc = "Profile", !.user = found]

\* update begins: get_id(username) returns Ok(found) or Err
PostGetId(name) ==
    /\ Len(reqs) < MaxRequests
    /\ \/ /\ reqs' = Append(reqs, AfterGetId(NewReq("POST", name), CatalogUser(name)))
          /\ NoFault
       \/ /\ reqs' = Append(reqs, [Reply(NewReq("POST", name), 500)
                                        EXCEPT !.cause = "get_id"])
          /\ Fault
    /\ UNCHANGED <<users, anime, lists, s3, remote, tasks, images, call>>

PostUploadIgnoringErr(k) ==
    /\ k \in DOMAIN reqs /\ reqs[k].pc = "Profile"
    /\ LET user == reqs[k].user[1]
       IN  IF get_ext(user.avatar) = Panic
           THEN /\ reqs' = [reqs EXCEPT ![k] =
                                [@ EXCEPT !.pc = "Panicked", !.cause = "get_ext"]]
                /\ UNCHANGED s3
                /\ NoFault
           ELSE \/ /\ s3' = s3 \cup {S3Object("user", user.id, user.avatar)}
                   /\ reqs' = [reqs EXCEPT ![k] = [@ EXCEPT !.pc = "Save"]]
                   /\ NoFault
                \/ /\ UNCHANGED s3
                   /\ reqs' = [reqs EXCEPT ![k] =
                                [@ EXCEPT !.pc = "Save", !.cause = "upload_to_s3"]]
                   /\ Fault
    /\ UNCHANGED <<users, anime, lists, remote, tasks, images, call>>

\* update_user_profile: get_ext of the avatar, then upload_to_s3(User, ..)?
PostUpload(k) ==
    /\ k \in DOMAIN reqs /\ reqs[k].pc = "Profile"
    /\ LET user == reqs[k].user[1]
       IN  IF get_ext(user.avatar) = Panic
           THEN /\ reqs' = [reqs EXCEPT ![k] =
                                [@ EXCEPT !.pc = "Panicked", !.cause = "get_ext"]]
                /\ UNCHANGED s3
                /\ NoFault
           ELSE \/ /\ s3' = s3 \cup {S3Object("user", user.id, user.avatar)}
                   /\ reqs' = [reqs EXCEPT ![k] = [@ EXCEPT !.pc = "Save"]]
                   /\ NoFault
                \/ /\ UNCHANGED s3
                   /\ reqs' = [reqs EXCEPT ![k] =
                                [Reply(@, 500) EXCEPT !.cause = "upload_to_s3"]]
                   /\ Fault
    /\ UNCHANGED <<users, anime, lists, remote, tasks, images, call>>

PostSaveIgnoringErr(k) ==
    /\ k \in DOMAIN reqs /\ reqs[k].pc = "Save"
    /\ \/ /\ users' = UpsertUser(users, NewUser(reqs[k].user[1]))
          /\ reqs' = [reqs EXCEPT ![k] = [@ EXCEPT !.pc = "Spawn"]]
          /\ NoFault
       \/ /\ UNCHANGED users
          /\ reqs' = [reqs EXCEPT ![k] =
                        [@ EXCEPT !.pc = "Spawn", !.cause = "insert_user"]]
          /\ Fault
    /\ UNCHANGED <<anime, lists, s3, remote, tasks, images, call>>

\* update_user_profile: insert_user(new_user); its Err answers 500
PostSave(k) ==
    /\ k \in DOMAIN reqs /\ reqs[k].pc = "Save"
    /\ \/ /\ users' = UpsertUser(users, NewUser(reqs[k].user[1]))
          /\ reqs' = [reqs EXCEPT ![k] = [@ EXCEPT !.pc = "Spawn"]]
          /\ NoFault
       \/ /\ UNCHANGED users
          /\ reqs' = [reqs EXCEPT ![k] =
                        [Reply(@, 500) EXCEPT !.cause = "insert_user"]]
          /\ Fault
    /\ UNCHANGED <<anime, lists, s3, remote, tasks, images, call>>

\* tokio::spawn(update_entries(user.id, ..)), the handle dropped
PostSpawn(k) ==
    /\ k \in DOMAIN reqs /\ reqs[k].pc = "Spawn"
    /\ tasks' = Spawned(reqs[k].user[1].id)
    /\ reqs' = [reqs EXCEPT ![k] = [@ EXCEPT !.pc = "Accept", !.task = Len(tasks')]]
    /\ UNCHANGED <<users, anime, lists, s3, remote, images, faults, call>>

PostReplyJoined(k) ==
    /\ k \in DOMAIN reqs /\ reqs[k].pc = "Accept"
    /\ tasks[reqs[k].task].pc \in Terminal
    /\ reqs' = [reqs EXCEPT ![k] =
                    Reply(@, IF tasks[reqs[k].task].pc = "Done" THEN 202 ELSE 500)]
    /\ UNCHANGED <<users, anime, lists, s3, remote, tasks, images, faults, call>>

\* Ok((StatusCode::ACCEPTED, "Added to the queue"))
PostReply(k) ==
    /\ k \in DOMAIN reqs /\ reqs[k].pc = "Accept"
    /\ reqs' = [reqs EXCEPT ![k] = Reply(@, 202)]
    /\ UNCHANGED <<users, anime, lists, s3, remote, tasks, images, faults, call>>

\* SELECT .. FROM lists as l INNER JOIN users as u ON l.user_id = u.user_id
\* INNER JOIN anime as a ON l.anime_id = a.anime_id WHERE u.name = $1
get_list_for_username(name) ==
    {[user |-> u, anime |-> a, list |-> l] :
        <<u, a, l>> \in {j \in users \X anime \X lists :
                            /\ j[3].user_id = j[1].user_id
                            /\ j[3].anime_id = j[2].anime_id
                            /\ j[1].name = name}}

\* From<&ListItemMap> for ResponseItem
ResponseItem(row) ==
    [user_title |-> row.list.user_title, start_day |-> row.list.start_day,
     end_day |-> row.list.end_day, score |-> row.list.score,
     average |-> row.anime.average, native |-> row.anime.native,
     romaji |-> row.anime.romaji, english |-> row.anime.english,
     description |-> row.anime.description, cover |-> row.anime.cover_s3,
     id |-> row.anime.anime_id]

\* get_list: None of no row, or the RestResponse of the rows
get_list(rows) ==
    IF rows = {}
    THEN None
    ELSE Some([id |-> (CHOOSE r \in rows : TRUE).user.name,
               avatar |-> (CHOOSE r \in rows : TRUE).user.avatar_s3,
               list |-> {ResponseItem(r) : r \in rows}])

\* user: Ok(Some(list)) answers 200 with it, Ok(None) 404, Err 500
GetUser(name) ==
    /\ Len(reqs) < MaxRequests
    /\ \/ /\ LET found == get_list(get_list_for_username(name))
                 req == [NewReq("GET", name) EXCEPT !.body = found]
             IN  reqs' = Append(reqs, Reply(req, IF found = None THEN 404 ELSE 200))
          /\ NoFault
       \/ /\ reqs' = Append(reqs, [Reply(NewReq("GET", name), 500)
                                        EXCEPT !.cause = "get_list"])
          /\ Fault
    /\ UNCHANGED <<users, anime, lists, s3, remote, tasks, images, call>>

\* the store holds bob's profile and one list row of his; the catalog lists
\* medium 2 as watched by alice and medium 1 as dropped by her
InitHttp ==
    /\ users = {NewUser(CatalogUser("bob")[1])}
    /\ lists = {OldList(OtherUser, 1)}
    /\ anime = {OldAnime(1)}
    /\ s3 = {}
    /\ remote = [u \in UserIds |->
                    IF u = RecUser
                    THEN <<[name |-> <<"W","a","t","c","h","i","n","g">>,
                            entries |-> <<2>>],
                           [name |-> <<"D","r","o","p","p","e","d">>,
                            entries |-> <<1>>]>>
                    ELSE <<>>]
    /\ tasks = <<>>
    /\ images = {}
    /\ reqs = <<>>
    /\ faults = 0
    /\ call = None

NextHttp ==
    \/ \E name \in Usernames : PostGetId(name)
    \/ \E k \in DOMAIN reqs : PostUpload(k)
    \/ \E k \in DOMAIN reqs : PostSave(k)
    \/ \E k \in DOMAIN reqs : PostSpawn(k)
    \/ \E k \in DOMAIN reqs : PostReply(k)
    \/ \E name \in Usernames : GetUser(name)
    \/ \E t \in DOMAIN tasks : FetchLists(t)
    \/ \E t \in DOMAIN tasks : OpenStream(t)
    \/ \E t \in DOMAIN tasks : ScanRow(t)
    \/ \E t \in DOMAIN tasks : UpsertAnimeStep(t)
    \/ \E t \in DOMAIN tasks : UpsertListStep(t)
    \/ \E img \in images : CoverUpload(img)

SpecHttp == InitHttp /\ [][NextHttp]_vars

-----------------------------------------------------------------------------
(* The functions of the program that read no state, each evaluated on its
   own over a bounded family of arguments *)

\* the parts a fetched date may hold: absent, or an i32
Years == {None, Some(1900), Some(2000), Some(2019), Some(2020)}
Months == {None} \cup {Some(m) : m \in -1..13}
Days == {None} \cup {Some(d) : d \in -1..32}

\* the call of fn on arg has returned ret
Call(fn, arg, ret) == Some([fn |-> fn, arg |-> arg, ret |-> ret])

InitPure ==
    /\ users = {} /\ anime = {} /\ lists = {} /\ s3 = {}
    /\ remote = [u \in UserIds |-> <<>>]
    /\ tasks = <<>> /\ images = {} /\ reqs = <<>>
    /\ faults = 0
    /\ call = None

\* construct_date(date)
CallConstructDate(date) ==
    /\ call = None
    /\ call' = Call("construct_date", date, construct_date(date))
    /\ UNCHANGED <<users, anime, lists, s3, remote, tasks, images, reqs, faults>>

\* the file names of at most four characters over a letter and the dot
FileNames == UNION {[1..n -> {"a", "."}] : n \in 0..4}

\* the URLs get_ext is given: the covers of the catalog, the file names
\* under a host, a host with a dot and a path, and the file names alone
Urls ==
    {MediaTable[a].cover_image : a \in MediaIds}
    \cup {Url(h, f) : h \in {<<"c">>, <<"c",".","d">>, <<"c","/","l">>},
                      f \in FileNames}
    \cup FileNames

\* get_ext(url)
CallGetExt(url) ==
    /\ call = None
    /\ call' = Call("get_ext", url, get_ext(url))
    /\ UNCHANGED <<users, anime, lists, s3, remote, tasks, images, reqs, faults>>

\* the caller goes on
Return ==
    /\ call # None
    /\ call' = None
    /\ UNCHANGED <<users, anime, lists, s3, remote, tasks, images, reqs, faults>>

NextPure ==
    \/ \E y \in Years, m \in Months, d \in Days : CallConstructDate(Date(y, m, d))
    \/ \E url \in Urls : CallGetExt(url)
    \/ Return

SpecPure == InitPure /\ [][NextPure]_vars

-----------------------------------------------------------------------------
(* The engine under the scheduling of the runtime: a spawned task that can
   take a step is polled in the end, and every call of the reconciliation
   returns. The calls of a cover upload, download_image and put_object,
   carry no timeout and may never return. *)

\* the download or the put of a cover upload never returns: its task
\* stays at that await for good
CoverHang(img) ==
    /\ img \in images /\ img.status = "Running"
    /\ images' = (images \ {img}) \cup {[img EXCEPT !.status = "Hung"]}
    /\ UNCHANGED <<users, anime, lists, s3, remote, tasks, reqs, faults, call>>

NextLive ==
    \/ Dispatch
    \/ \E t \in DOMAIN tasks : FetchLists(t)
    \/ \E t \in DOMAIN tasks : OpenStream(t)
    \/ \E t \in DOMAIN tasks : ScanRow(t)
    \/ \E t \in DOMAIN tasks : UpsertAnimeStep(t)
    \/ \E t \in DOMAIN tasks : UpsertListStep(t)
    \/ \E img \in images : CoverUpload(img)
    \/ \E img \in images : CoverHang(img)

\* the runtime polls the reconciliation and the cover uploads that have not
\* hung
Fairness ==
    /\ WF_vars(Dispatch)
    /\ WF_vars(\E t \in DOMAIN tasks :
                    \/ FetchLists(t) \/ OpenStream(t) \/ ScanRow(t)
                    \/ UpsertAnimeStep(t) \/ UpsertListStep(t))
    /\ WF_vars(\E img \in images : CoverUpload(img))

SpecLive == Init /\ [][NextLive]_vars /\ Fairness

-----------------------------------------------------------------------------
(* What the claims speak of, stated apart from the code's own filter *)

\* pat stands in name at offset k, letter case aside
MatchesAt(name, pat, k) ==
    \A j \in 1..Len(pat) : lower_char(name[k + j]) = pat[j]

\* the name contains "completed" or "watching", letter case aside
NameRetained(name) ==
    \E pat \in {COMPLETED, WATCHING} :
        \E k \in 0..(Len(name) - Len(pat)) : MatchesAt(name, pat, k)

\* the same, of each name a catalog list may bear
KeptName == [n \in NameSet |-> NameRetained(n)]

\* the media ids of the entries of the sub-lists of that kind
ExpectedIds(ls) ==
    UNION {{ls[k].entries[j] : j \in DOMAIN ls[k].entries} :
            k \in {n \in DOMAIN ls : KeptName[ls[n].name]}}

\* the media ids of the entries of the other sub-lists
IgnoredIds(ls) ==
    UNION {{ls[k].entries[j] : j \in DOMAIN ls[k].entries} :
            k \in {n \in DOMAIN ls : ~KeptName[ls[n].name]}}

\* no delete and no upsert of the task failed
StorageClean(task) ==
    task.delFailed = {} /\ \A k \in DOMAIN task.log : task.log[k].ok

\* no delete and no list row upsert of the task failed
ListWritesClean(task) ==
    /\ task.delFailed = {}
    /\ \A k \in DOMAIN task.log : task.log[k].op = "list" => task.log[k].ok

\* the media ids of the list row upserts the task issued, in order
RECURSIVE ListAttempts(_)
ListAttempts(log) ==
    IF log = <<>> THEN <<>>
    ELSE IF Head(log).op = "list" THEN <<Head(log).a>> \o ListAttempts(Tail(log))
    ELSE ListAttempts(Tail(log))

\* some delete or upsert of the task failed
RowFailure(task) ==
    task.delFailed # {} \/ \E k \in DOMAIN task.log : ~task.log[k].ok

-----------------------------------------------------------------------------
(* C1 *)

\* C1: when a reconciliation of user U that ran alone, with no failed
\* delete or upsert, has returned Ok, the list rows of U are exactly the
\* media ids of the entries of the fetched sub-lists whose name contains
\* "completed" or "watching", letter case aside.
C1_RowsAreRetainedIds ==
    \A t \in DOMAIN tasks :
        (tasks[t].pc = "Done" /\ ~tasks[t].overlap /\ StorageClean(tasks[t]))
            => RowIds(tasks[t].id) = ExpectedIds(tasks[t].lists)

\* a clean run that deleted a stale row and inserted a new one
C1_Witness ==
    \E t \in DOMAIN tasks :
        /\ tasks[t].pc = "Done" /\ ~tasks[t].overlap /\ StorageClean(tasks[t])
        /\ tasks[t].deleted # {}
        /\ ExpectedIds(tasks[t].lists) \ tasks[t].snap # {}
        /\ IgnoredIds(tasks[t].lists) # {}

-----------------------------------------------------------------------------
(* C2 *)

-----------------------------------------------------------------------------
(* C4 *)

\* the deletion scan of the task has come to its end
Scanned(task) ==
    task.pc \in {"Converging", "Done"} \/ task.cause = "get_ext"

\* C4: a task upserts anime and list rows only for media ids of sub-lists
\* whose name contains "completed" or "watching"; and once its deletion scan
\* is over, a delete was issued for every stored row whose media id is only
\* in other sub-lists, and the row is gone unless that delete failed.
C4_IgnoredListsWriteNothing ==
    \A t \in DOMAIN tasks :
        LET task == tasks[t]
            kept == ExpectedIds(task.lists)
        IN  /\ \A k \in DOMAIN task.log : task.log[k].a \in kept
            /\ Scanned(task) =>
                \A a \in (task.snap \cap IgnoredIds(task.lists)) \ kept :
                    /\ a \in task.deleted
                    /\ a \notin task.delFailed => a \notin RowIds(task.id)

\* a run that returned Ok after deleting the row of a media that is now in
\* an ignored sub-list only, with another media retained
C4_Witness ==
    \E t \in DOMAIN tasks :
        /\ tasks[t].pc = "Done"
        /\ (tasks[t].deleted \cap IgnoredIds(tasks[t].lists)) # {}
        /\ tasks[t].log # <<>>

-----------------------------------------------------------------------------
(* C8 *)

\* C8: the step in which get_lists fails leaves the three tables, the
\* bucket and the cover uploads as they are and ends the task in Failed;
\* such a task has opened no stream, issued no delete and no upsert, and
\* spawned no cover upload.
C8_FetchFailureWritesNothing ==
    /\ [](\A t \in DOMAIN tasks :
            tasks[t].cause = "fetch" =>
                /\ tasks[t].pc = "Failed"
                /\ tasks[t].stream = None /\ tasks[t].deleted = {}
                /\ tasks[t].log = <<>>
                /\ \A img \in images : img.task # t)
    /\ [][\A t \in DOMAIN tasks :
            (tasks[t].pc = "ListFetch" /\ tasks'[t].pc # "Diffing"
                /\ tasks'[t] # tasks[t])
                => /\ tasks'[t].cause = "fetch"
                   /\ UNCHANGED <<users, anime, lists, s3, images>>]_vars

\* a failed fetch for a user who has stored rows and retained entries
C8_Witness ==
    \E t \in DOMAIN tasks :
        /\ tasks[t].cause = "fetch"
        /\ RowIds(tasks[t].id) # {}
        /\ ExpectedIds(remote[tasks[t].id]) # {}
        /\ RowIds(tasks[t].id) # ExpectedIds(remote[tasks[t].id])

-----------------------------------------------------------------------------
(* C9 *)

\* C9: only a failed fetch or a failed read of the row stream ends a task
\* in Failed, never a failed delete or upsert; and a task that returned Ok
\* issued a delete for every stored row of a media that is not retained and
\* a list row upsert for every retained entry, in their order, whatever
\* failed on the way.
C9_RowFailureDoesNotStop ==
    \A t \in DOMAIN tasks :
        LET task == tasks[t]
        IN  /\ task.pc = "Failed" => task.cause \in {"fetch", "stream"}
            /\ task.pc = "Panicked" => task.cause = "get_ext"
            /\ task.pc = "Done" =>
                /\ task.deleted = task.snap \ ExpectedIds(task.lists)
                /\ ListAttempts(task.log) = task.todo

\* a run that returned Ok although an operation before its last failed
C9_Witness ==
    \E t \in DOMAIN tasks :
        /\ tasks[t].pc = "Done" /\ RowFailure(tasks[t])
        /\ Len(tasks[t].todo) > 1
        /\ \/ tasks[t].delFailed # {}
           \/ \E k \in DOMAIN tasks[t].log :
                ~tasks[t].log[k].ok /\ k + 1 < Len(tasks[t].log)

-----------------------------------------------------------------------------
(* C10 *)

\* a cover upload ends in this step
CoverUploadEnds ==
    \E img \in images :
        /\ img.status = "Running"
        /\ \E st \in {"Ok", "Err"} : [img EXCEPT !.status = st] \in images'

\* C10: a task about to upsert the list row of an entry can do so whatever
\* the state of the cover uploads, that of the entry included; and the step
\* in which a cover upload ends, in success or in failure, leaves the three
\* tables and the tasks as they are.
C10_CoverUploadNotAwaited ==
    /\ [](\A t \in DOMAIN tasks :
            (tasks[t].pc = "Converging" /\ tasks[t].stage = "list")
                => ENABLED UpsertListStep(t))
    /\ [][CoverUploadEnds => UNCHANGED <<users, anime, lists, tasks>>]_vars

\* a run that returned Ok having upserted the list rows of two entries, the
\* cover upload of the first failed and that of the second still running
C10_Witness ==
    \E t \in DOMAIN tasks :
        /\ tasks[t].pc = "Done" /\ Len(tasks[t].todo) = 2
        /\ \A k \in DOMAIN tasks[t].log : tasks[t].log[k].ok
        /\ \E i1, i2 \in images :
            /\ i1.task = t /\ i1.i = 1 /\ i1.status = "Err"
            /\ i2.task = t /\ i2.i = 2 /\ i2.status = "Running"
        /\ {tasks[t].todo[1], tasks[t].todo[2]} \subseteq RowIds(tasks[t].id)

-----------------------------------------------------------------------------
(* C3 *)

\* the first run has ended with none of its outside calls failed
FirstRunClean ==
    /\ Len(tasks) >= 1
    /\ tasks[1].pc \in {"Done", "Panicked"}
    /\ StorageClean(tasks[1])

\* C3: after a first run none of whose calls failed, a second run over the
\* same remote lists issues no delete, and none of its steps changes the
\* anime rows or the list rows.
C3_SecondRunChangesNothing ==
    /\ []((Len(tasks) = 2 /\ FirstRunClean) => tasks[2].deleted = {})
    /\ [][(Len(tasks) = 2 /\ FirstRunClean) => UNCHANGED <<anime, lists>>]_vars

\* a second run that returned Ok, with both of its upserts issued, after a
\* first run that deleted a stale row and inserted a new one
C3_Witness ==
    /\ Len(tasks) = 2 /\ FirstRunClean
    /\ tasks[1].pc = "Done" /\ tasks[2].pc = "Done"
    /\ tasks[1].deleted # {}
    /\ ExpectedIds(tasks[1].lists) \ tasks[1].snap # {}
    /\ Len(tasks[2].log) >= 2

-----------------------------------------------------------------------------
(* C5 *)

\* a POST of a name the catalog does not know is read in this step
UnknownPostRead ==
    /\ Len(reqs') = Len(reqs) + 1
    /\ reqs'[Len(reqs')].method = "POST"
    /\ CatalogUser(reqs'[Len(reqs')].name) = None

\* C5: a POST of a name the catalog does not know, get_id having answered,
\* is replied 404 with no task of its own, and the step that handles it
\* changes no table, no object of the bucket, no task and no image task;
\* once replied, a request stays as it is.
C5_UnknownUserWritesNothing ==
    /\ [](\A k \in DOMAIN reqs :
            (reqs[k].method = "POST" /\ CatalogUser(reqs[k].name) = None
                    /\ reqs[k].cause = "")
                => /\ reqs[k].pc = "Replied" /\ reqs[k].status = 404
                   /\ reqs[k].task = 0 /\ reqs[k].user = None)
    /\ [][UnknownPostRead
            => UNCHANGED <<users, anime, lists, s3, tasks, images>>]_vars
    /\ [][\A k \in DOMAIN reqs :
            reqs[k].pc = "Replied" => reqs'[k] = reqs[k]]_vars

\* a POST of ghost replied 404 while a reconciliation of alice is running
C5_Witness ==
    \E k \in DOMAIN reqs :
        /\ reqs[k].method = "POST" /\ reqs[k].name = "ghost"
        /\ reqs[k].status = 404
        /\ \E t \in DOMAIN tasks : tasks[t].pc = "Converging"

-----------------------------------------------------------------------------
(* C6 *)

\* C6: a POST that reached its spawn has the profile row of the resolved user
\* in the table and a task of that user's id; its reply can be produced
\* whatever the state of that task; the reply, once produced, is 202 and
\* does not change.
C6_AcceptedWhateverTheTask ==
    /\ [](\A k \in DOMAIN reqs :
            (reqs[k].method = "POST" /\ reqs[k].pc \in {"Spawn", "Accept"})
                => NewUser(reqs[k].user[1]) \in users)
    /\ [](\A k \in DOMAIN reqs :
            (reqs[k].method = "POST" /\ reqs[k].task # 0)
                => /\ reqs[k].task \in DOMAIN tasks
                   /\ tasks[reqs[k].task].id = reqs[k].user[1].id
                   /\ reqs[k].pc = "Accept" => ENABLED PostReply(k)
                   /\ reqs[k].pc = "Replied" => reqs[k].status = 202)
    /\ [](\A k \in DOMAIN reqs :
            (reqs[k].method = "POST" /\ reqs[k].status = 202)
                => reqs[k].task # 0 /\ NewUser(reqs[k].user[1]) \in users)
    /\ [][\A k \in DOMAIN reqs :
            reqs[k].status # 0 => reqs'[k].status = reqs[k].status]_vars

\* a POST replied 202 whose reconciliation failed before the reply, and a
\* POST replied 202 whose reconciliation has not started
C6_Witness ==
    \E k, j \in DOMAIN reqs :
        /\ reqs[k].method = "POST" /\ reqs[k].status = 202
        /\ tasks[reqs[k].task].pc = "Failed"
        /\ reqs[j].method = "POST" /\ reqs[j].status = 202
        /\ tasks[reqs[j].task].pc = "ListFetch"

-----------------------------------------------------------------------------
(* C7 *)

\* the list rows persisted for the user of this name
PersistedRows(name) ==
    {l \in lists : \E u \in users : u.name = name /\ u.user_id = l.user_id}

\* a GET is answered 200 or 404 in this step
GetAnswered ==
    /\ Len(reqs') = Len(reqs) + 1
    /\ reqs'[Len(reqs')].method = "GET"
    /\ reqs'[Len(reqs')].status \in {200, 404}

\* C7: a GET whose query succeeded answers 404 exactly when no list row is
\* persisted for the user of that name, and otherwise returns every
\* persisted list row of that user.
C7_GetReturnsEveryRow ==
    [][GetAnswered =>
        LET req == reqs'[Len(reqs')]
            rows == PersistedRows(req.name)
        IN  /\ req.status = 404 <=> rows = {}
            /\ req.status = 200 =>
                /\ req.body[1].id = req.name
                /\ {i.id : i \in req.body[1].list} = {l.anime_id : l \in rows}
                /\ \A l \in rows : \E i \in req.body[1].list :
                    /\ i.id = l.anime_id /\ i.score = l.score
                    /\ i.user_title = l.user_title
                    /\ i.start_day = l.start_day /\ i.end_day = l.end_day]_vars

\* the same, of the list rows whose anime row is persisted too
C7_GetReturnsJoinedRows ==
    [][GetAnswered =>
        LET req == reqs'[Len(reqs')]
            rows == {l \in PersistedRows(req.name) :
                        \E a \in anime : a.anime_id = l.anime_id}
        IN  /\ req.status = 404 <=> rows = {}
            /\ req.status = 200 =>
                /\ req.body[1].id = req.name
                /\ {i.id : i \in req.body[1].list} = {l.anime_id : l \in rows}
                /\ \A l \in rows : \E i \in req.body[1].list :
                    /\ i.id = l.anime_id /\ i.score = l.score
                    /\ i.user_title = l.user_title
                    /\ i.start_day = l.start_day /\ i.end_day = l.end_day]_vars

-----------------------------------------------------------------------------
(* C11 *)

\* C11: every list row in the table has an anime row of its anime_id and a
\* users row of its user_id in the tables.
C11_ListRowsHaveParents ==
    \A l \in lists :
        /\ \E a \in anime : a.anime_id = l.anime_id
        /\ \E u \in users : u.user_id = l.user_id

-----------------------------------------------------------------------------
(* C12 *)

\* C12: once the handler of a POST whose get_id found the user has ended,
\* the profile row of the resolved id, name and avatar URLs is in the users
\* table, whether or not the avatar upload failed (insert_user itself not
\* having failed).
C12_ProfileUpsertedWhateverTheAvatar ==
    \A k \in DOMAIN reqs :
        (/\ reqs[k].method = "POST" /\ reqs[k].user # None
         /\ reqs[k].pc = "Replied" /\ reqs[k].cause # "insert_user")
            => NewUser(reqs[k].user[1]) \in users

-----------------------------------------------------------------------------
(* C13 *)

\* the days of the months of a common year
MonthDays == <<31, 28, 31, 30, 31, 30, 31, 31, 30, 31, 30, 31>>

\* y-m-d is a date of the calendar
ValidDate(y, m, d) ==
    /\ m \in 1..12 /\ d >= 1
    /\ \/ d <= MonthDays[m]
       \/ m = 2 /\ d = 29 /\ y % 4 = 0 /\ (y % 100 # 0 \/ y % 400 = 0)

\* C13: construct_date returns a date exactly when year, month and day are
\* all present and form a date of the calendar, and the date it returns is
\* of that year, month and day; {2020,1,1} gives 2020-01-01, {2020,2,30} and
\* {2020,1,missing} give no date.
C13_ConstructDate ==
    (call # None /\ call[1].fn = "construct_date") =>
        LET date == call[1].arg
            ret == call[1].ret
            whole == date.year # None /\ date.month # None /\ date.day # None
        IN  /\ ret # None <=>
                (whole /\ ValidDate(date.year[1], date.month[1], date.day[1]))
            /\ ret # None =>
                /\ ret[1].year = date.year[1]
                /\ ret[1].month = date.month[1]
                /\ ret[1].day = date.day[1]
            /\ date = Date(Some(2020), Some(1), Some(1))
                => ret = Some([year |-> 2020, month |-> 1, day |-> 1])
            /\ date = Date(Some(2020), Some(2), Some(30)) => ret = None
            /\ date = Date(Some(2020), Some(1), None) => ret = None

\* construct_date has returned no date for 30 February 2020
C13_Witness ==
    /\ call # None /\ call[1].fn = "construct_date"
    /\ call[1].arg = Date(Some(2020), Some(2), Some(30))
    /\ call[1].ret = None

-----------------------------------------------------------------------------
(* C14 *)

\* the part of the URL after its last '/'
RECURSIVE LastSegment(_)
LastSegment(url) ==
    IF \E k \in DOMAIN url : url[k] = "/"
    THEN LastSegment(Tail(url))
    ELSE url

\* the part of the segment after its last '.'
AfterLastDot(seg) ==
    LET k == CHOOSE i \in DOMAIN seg :
                seg[i] = "." /\ \A j \in DOMAIN seg : seg[j] = "." => j <= i
    IN  SubSeq(seg, k + 1, Len(seg))

HasDot(seg) == \E k \in DOMAIN seg : seg[k] = "."

\* C14: for a URL whose last '/'-segment holds a '.', get_ext returns the
\* part of that segment after its last '.'.
C14_GetExtAfterLastDot ==
    (call # None /\ call[1].fn = "get_ext" /\ HasDot(LastSegment(call[1].arg)))
        => call[1].ret = AfterLastDot(LastSegment(call[1].arg))

\* the same, of the URLs whose last segment holds one '.' only
C14_GetExtOfOneDot ==
    (/\ call # None /\ call[1].fn = "get_ext"
     /\ Cardinality({k \in DOMAIN LastSegment(call[1].arg) :
                        LastSegment(call[1].arg)[k] = "."}) = 1)
        => call[1].ret = AfterLastDot(LastSegment(call[1].arg))

-----------------------------------------------------------------------------
(* C15 *)

\* the keys assets/images/<subject>_<id>.<ext> of the catalog's images
CatalogKeys ==
    {"assets/images/anime_1.jpg", "assets/images/anime_2.v2",
     "assets/images/user_1.png", "assets/images/user_2.jpg"}

\* C15: every object in the bucket has a key of the catalog's images; a
\* cover upload that succeeded has put an object whose key, after the
\* bucket's URL, is the cover_s3 of the anime row of that id; and the
\* profile row a POST saved has for avatar_s3 the bucket's URL followed by
\* the key of the avatar object its upload has put.
C15_StoredUrlNamesTheObject ==
    /\ \A o \in s3 : o.key \in CatalogKeys
    /\ \A img \in images :
        img.status = "Ok" =>
            \E o \in s3 : \E row \in anime :
                /\ row.anime_id = img.id
                /\ row.cover_s3 = "https://s3.amazonaws.com/anihistory-images/" \o o.key
    /\ \A k \in DOMAIN reqs :
        (reqs[k].method = "POST" /\ reqs[k].pc \in {"Spawn", "Accept"})
            => \E o \in s3 : \E u \in users :
                /\ u.user_id = reqs[k].user[1].id
                /\ u.avatar_s3 = "https://s3.amazonaws.com/anihistory-images/" \o o.key

\* a POST of alice at its reply, her avatar in the bucket, and the cover of
\* a medium of hers uploaded
C15_Witness ==
    /\ \E k \in DOMAIN reqs :
        /\ reqs[k].method = "POST" /\ reqs[k].name = "alice"
        /\ reqs[k].pc = "Accept"
    /\ \E img \in images : img.status = "Ok"
    /\ \E o \in s3 : o.key = "assets/images/user_1.png"

-----------------------------------------------------------------------------
(* C16 *)

\* C16: every object put to the bucket carries the public-read ACL.
C16_PutsArePublicRead ==
    \A o \in s3 : o.acl = Some("public-read")

-----------------------------------------------------------------------------
(* C17 *)

\* C17: when two reconciliations of the same user, the second spawned while
\* the first was running, have both returned Ok with no failed delete or
\* upsert, the list rows of the user are the rows a run builds of the media
\* ids of the retained sub-lists, one row each.
C17_ConcurrentRunsConverge ==
    (/\ Len(tasks) = 2
     /\ \A t \in DOMAIN tasks : tasks[t].pc = "Done" /\ StorageClean(tasks[t]))
        => /\ RowIds(RecUser) = ExpectedIds(remote[RecUser])
           /\ ListRowsOf(RecUser) =
                {NewList(RecUser, a) : a \in ExpectedIds(remote[RecUser])}

\* both have returned Ok, each having issued the delete of the same stale
\* row, the second having deleted another stale row before the first opened
\* its stream, and a retained medium having had no row
C17_Witness ==
    /\ Len(tasks) = 2
    /\ \A t \in DOMAIN tasks : tasks[t].pc = "Done" /\ StorageClean(tasks[t])
    /\ tasks[1].deleted \cap tasks[2].deleted # {}
    /\ ExpectedIds(remote[RecUser]) \ tasks[1].snap # {}
    /\ tasks[2].snap \ tasks[1].snap # {}

-----------------------------------------------------------------------------
(* C18 *)

\* C18: a task never issues the delete of a row whose media id is in a
\* retained sub-list, and once its scan is over it has issued the delete of
\* every row of its stream whose media id is in none: of stored 1, 2, 3 with
\* 1 and 3 retained, of 2 only.
C18_DeletesExactlyTheStale ==
    \A t \in DOMAIN tasks :
        LET task == tasks[t]
            kept == ExpectedIds(task.lists)
        IN  /\ task.deleted \cap kept = {}
            /\ task.deleted \subseteq task.snap
            /\ Scanned(task) => task.deleted = task.snap \ kept
            /\ (Scanned(task) /\ task.snap = {1, 2, 3} /\ kept = {1, 3})
                => task.deleted = {2}

\* the scan is over of rows 1, 2, 3 against one retained sub-list with the
\* entries 3, 1 in that order: row 2 alone was deleted
C18_Witness ==
    \E t \in DOMAIN tasks :
        /\ Scanned(tasks[t]) /\ tasks[t].snap = {1, 2, 3}
        /\ \E k \in DOMAIN tasks[t].lists :
            /\ NameRetained(tasks[t].lists[k].name)
            /\ tasks[t].lists[k].entries = <<3, 1>>
        /\ tasks[t].deleted = {2}

-----------------------------------------------------------------------------
(* C19 *)

\* C19: a task whose deletion scan is running has issued no upsert, and a
\* task that has issued an upsert issues no delete from then on.
C19_DeletesBeforeUpserts ==
    /\ [](\A t \in DOMAIN tasks :
            tasks[t].pc \in {"ListFetch", "Diffing"} => tasks[t].log = <<>>)
    /\ [][\A t \in DOMAIN tasks :
            tasks[t].log # <<>> => tasks'[t].deleted = tasks[t].deleted]_vars
    /\ [][\A t \in DOMAIN tasks :
            tasks[t].pc = "Converging" =>
                \A r \in lists : r.user_id = tasks[t].id => r \in lists'
                    \/ \E n \in lists' : n.user_id = r.user_id
                                         /\ n.anime_id = r.anime_id]_vars

\* a task in its upsert phase, an upsert issued, after it deleted a row
C19_Witness ==
    \E t \in DOMAIN tasks :
        /\ tasks[t].pc = "Converging"
        /\ tasks[t].deleted # {} /\ tasks[t].delFailed = {}
        /\ tasks[t].log # <<>>

-----------------------------------------------------------------------------
(* C20 *)

\* C20: every task was spawned by a request whose insert_user had
\* succeeded, so the profile row of its user is in the table before any of
\* its upserts; and in the order of a task's upserts, each list row upsert
\* comes right after the anime upsert of the same entry (and the spawn of
\* its cover upload), which had returned, Ok or Err.
C20_ProfileThenAnimeThenList ==
    \A t \in DOMAIN tasks :
        /\ \E k \in DOMAIN reqs :
            /\ reqs[k].task = t /\ reqs[k].cause = ""
            /\ reqs[k].user[1].id = tasks[t].id
            /\ NewUser(reqs[k].user[1]) \in users
        /\ \A k \in DOMAIN tasks[t].log :
            tasks[t].log[k].op = "list" =>
                \E j \in 1..(k - 1) :
                    /\ tasks[t].log[j].op = "anime"
                    /\ tasks[t].log[j].a = tasks[t].log[k].a
                    /\ \A m \in (j + 1)..(k - 1) : tasks[t].log[m].op = "spawn"
        /\ (tasks[t].pc = "Converging" /\ tasks[t].stage = "list") =>
            /\ tasks[t].log # <<>>
            /\ tasks[t].log[Len(tasks[t].log)].op \in {"anime", "spawn"}
            /\ tasks[t].log[Len(tasks[t].log)].a = tasks[t].todo[tasks[t].i]

\* a task has upserted a list row after the anime upsert of the entry
\* failed, the profile of its user saved by the POST that spawned it
C20_Witness ==
    \E t \in DOMAIN tasks :
        /\ Len(tasks[t].log) = 2
        /\ tasks[t].log[1].op = "anime" /\ ~tasks[t].log[1].ok
        /\ tasks[t].log[2].op = "list" /\ tasks[t].log[2].ok
        /\ \E k \in DOMAIN reqs : reqs[k].task = t /\ reqs[k].status = 202

-----------------------------------------------------------------------------
(* C21 *)

\* the anime upserts the task issued, in order: the k-th is that of the
\* k-th entry the loops visit
AnimeAttempts(log) == SelectSeq(log, LAMBDA e : e.op = "anime")

\* the cover uploads the task spawned
ImagesOf(t) == {img \in images : img.task = t}

\* C21: a task spawned a cover upload for the entry at a position of its
\* loops exactly when the anime upsert of that entry was issued and
\* succeeded; every cover upload it spawned is that of the media of such
\* an entry, an entry of a sub-list whose name contains "completed" or
\* "watching"; and it spawned as many as anime upserts of it succeeded.
C21_ImagePerAnimeUpsert ==
    \A t \in DOMAIN tasks :
        LET task == tasks[t]
            ev == AnimeAttempts(task.log)
        IN  /\ \A i \in DOMAIN task.todo :
                (\E img \in ImagesOf(t) : img.i = i)
                    <=> (i <= Len(ev) /\ ev[i].ok)
            /\ \A img \in ImagesOf(t) :
                /\ img.i \in 1..Len(ev)
                /\ img.id = ev[img.i].a /\ img.prefix = "anime"
                /\ img.url = MediaTable[img.id].cover_image
                /\ img.id \in ExpectedIds(task.lists)
            /\ Cardinality(ImagesOf(t))
                = Cardinality({i \in DOMAIN ev : ev[i].ok})

\* a run that returned Ok after the anime upsert of one of its two entries
\* failed and that of the other succeeded: one cover upload, of the other
C21_Witness ==
    \E t \in DOMAIN tasks :
        LET ev == AnimeAttempts(tasks[t].log)
        IN  /\ tasks[t].pc = "Done" /\ Len(ev) = 2
            /\ \E i, j \in 1..2 : ~ev[i].ok /\ ev[j].ok /\ ev[i].a # ev[j].a
            /\ Cardinality(ImagesOf(t)) = 1

-----------------------------------------------------------------------------
(* C22 *)

\* the first reconciliation dispatched
First == 1

\* where the cover upload spawned for the entry at position i stands
ImageStatus(t, i) ==
    IF \E img \in images : img.task = t /\ img.i = i
    THEN (CHOOSE img \in images : img.task = t /\ img.i = i).status
    ELSE "None"

\* the covers of the retained entries of the user's lists have the shape
\* get_ext assumes: a '.' in the last segment
CoversWellFormed(id) ==
    \A a \in ExpectedIds(remote[id]) :
        HasDot(LastSegment(MediaTable[a].cover_image))

\* the task has ended with Ok, a list row upsert issued for each entry
ProcessedAll(t) ==
    /\ t \in DOMAIN tasks /\ tasks[t].pc = "Done"
    /\ ListAttempts(tasks[t].log) = tasks[t].todo

\* the task has come to its end
Ended(t) == t \in DOMAIN tasks /\ tasks[t].pc \in Terminal

\* a cover upload of the task has hung
SomeHung(t) == \E img \in images : img.task = t /\ img.status = "Hung"

\* no cover upload of the task is under way
NoneRunning(t) == \A img \in images : img.task = t => img.status # "Running"

\* C22: once a cover upload a reconciliation spawned has hung, the
\* reconciliation still issues the upserts of all its entries and returns
\* Ok; and the cover uploads it spawned for its other entries still come
\* to an end, each in Ok or Err unless it hangs too.
C22_HungImageBlocksOnlyItself ==
    /\ SomeHung(First) ~> (ProcessedAll(First) /\ SomeHung(First))
    /\ SomeHung(First) ~> (Ended(First) /\ NoneRunning(First))

\* C22, of the runs whose covers have the shape get_ext assumes: the same
C22_WhenCoversWellFormed ==
    /\ (SomeHung(First) /\ CoversWellFormed(RecUser))
            ~> (ProcessedAll(First) /\ SomeHung(First))
    /\ SomeHung(First) ~> (Ended(First) /\ NoneRunning(First))

\* a run that returned Ok with the upserts of both entries done, the cover
\* upload of the first hung and that of the second ended well
C22_Witness ==
    /\ ProcessedAll(First) /\ Len(tasks[First].todo) = 2
    /\ ImageStatus(First, 1) = "Hung" /\ ImageStatus(First, 2) = "Ok"
    /\ {tasks[First].todo[1], tasks[First].todo[2]} \subseteq RowIds(RecUser)

-----------------------------------------------------------------------------
(* C23 *)

\* the phases a task may be in right after phase pc
PhasesAfter(pc) ==
    CASE pc = "ListFetch" -> {"Diffing", "Failed"}
      [] pc = "Diffing" -> {"Diffing", "Converging", "Done", "Failed"}
      [] pc = "Converging" -> {"Converging", "Done", "Failed"}
      [] OTHER -> {pc}

\* every task starts at the list fetch and moves from phase to phase in
\* the order fetch, deletion scan, upsert loop, end
PhaseOrder ==
    /\ \A t \in DOMAIN tasks :
        /\ t \in DOMAIN tasks'
        /\ tasks'[t].pc # tasks[t].pc => tasks'[t].pc \in PhasesAfter(tasks[t].pc)
    /\ \A t \in DOMAIN tasks' \ DOMAIN tasks : tasks'[t].pc = "ListFetch"

\* the task has ended, by returning Ok or by returning the error
DoneOrFailed(t) == t \in DOMAIN tasks /\ tasks[t].pc \in {"Done", "Failed"}

\* C23: a reconciliation goes through the list fetch, then the deletion
\* scan, then the upsert loop, in that order, and in the end returns Ok or
\* the error, all its catalog and storage calls returning.
C23_FetchScanUpsertThenEnd ==
    /\ [][PhaseOrder]_vars
    /\ (First \in DOMAIN tasks) ~> DoneOrFailed(First)

\* C23, of the runs whose covers have the shape get_ext assumes: the same
C23_WhenCoversWellFormed ==
    /\ [][CoversWellFormed(RecUser) => PhaseOrder]_vars
    /\ (First \in DOMAIN tasks /\ CoversWellFormed(RecUser)) ~> DoneOrFailed(First)

-----------------------------------------------------------------------------
(* C24 *)

\* the number of '/'-delimited segments of the URL
Segments(url) == 1 + Cardinality({k \in DOMAIN url : url[k] = "/"})

\* get_ext was called and failed, indexing out of bounds
GetExtFailed == call # None /\ call[1].fn = "get_ext" /\ call[1].ret = Panic

\* get_ext was called and returned an extension
GetExtReturned == call # None /\ call[1].fn = "get_ext" /\ call[1].ret # Panic

\* C24 as claimed: get_ext fails for every URL whose last '/'-segment has no
\* '.' and for every URL of fewer than two segments, and returns for every
\* other URL.
C24_FailsOnNoDotOrOneSegment ==
    (call # None /\ call[1].fn = "get_ext") =>
        (GetExtFailed <=> \/ ~HasDot(LastSegment(call[1].arg))
                          \/ Segments(call[1].arg) < 2)

\* C24: get_ext fails for every URL whose last '/'-segment has no '.', and
\* returns for every other URL, those of one segment included.
C24_FailsExactlyOnNoDot ==
    (call # None /\ call[1].fn = "get_ext") =>
        (GetExtFailed <=> ~HasDot(LastSegment(call[1].arg)))

\* get_ext failed on a URL of two segments with a '.' in the first only
C24_Witness ==
    /\ GetExtFailed
    /\ Segments(call[1].arg) = 2 /\ HasDot(call[1].arg)
    /\ ~HasDot(LastSegment(call[1].arg))

\* get_ext returned on a URL of one segment
C24_OneSegmentReturned ==
    GetExtReturned /\ Segments(call[1].arg) = 1

-----------------------------------------------------------------------------
(* C25 *)

\* the cover of the media has a '.' in its last segment
CoverHasExt(a) == HasDot(LastSegment(MediaTable[a].cover_image))

\* the task issued the anime upsert and the list row upsert of the media
Attempted(task, a) ==
    /\ \E k \in DOMAIN task.log : task.log[k].op = "anime" /\ task.log[k].a = a
    /\ \E k \in DOMAIN task.log : task.log[k].op = "list" /\ task.log[k].a = a

\* C25: a reconciliation that has fetched the lists and scanned the stored
\* rows, and has come to its end, has issued the anime upsert and the list
\* row upsert of every retained entry whose cover has an extension, also
\* when the cover of another retained entry has none.
C25_BadCoverStopsNoOther ==
    \A t \in DOMAIN tasks :
        (tasks[t].pc \in {"Done", "Panicked"}
            /\ \E b \in ExpectedIds(tasks[t].lists) : ~CoverHasExt(b))
        => \A a \in ExpectedIds(tasks[t].lists) :
                CoverHasExt(a) => Attempted(tasks[t], a)

\* C25, of the entries before the first whose cover has no extension: their
\* upserts were issued; and a task the panic ended issued none after it
C25_EntriesBeforeTheBadOne ==
    \A t \in DOMAIN tasks :
        LET task == tasks[t]
            bad == {k \in DOMAIN task.todo : ~CoverHasExt(task.todo[k])}
        IN  (task.pc \in {"Done", "Panicked"} /\ bad # {}) =>
                LET first == CHOOSE k \in bad : \A j \in bad : k <= j
                IN  /\ task.pc = "Panicked" /\ task.cause = "get_ext"
                    /\ ListAttempts(task.log) = SubSeq(task.todo, 1, first - 1)

\* a task the panic ended before the upserts of a later entry whose cover
\* has an extension
C25_LaterEntrySkipped ==
    \E t \in DOMAIN tasks :
        /\ tasks[t].pc = "Panicked" /\ Len(tasks[t].todo) = 2
        /\ ~CoverHasExt(tasks[t].todo[1]) /\ CoverHasExt(tasks[t].todo[2])
        /\ tasks[t].log = <<>>

-----------------------------------------------------------------------------
(* C26 *)

\* the list rows of the user, as they are and as the step leaves them
RowsOfUser(table, u) == {r \in table : r.user_id = u}

\* a reconciliation of the user takes this step
StepOfTaskOf(u) ==
    \E t \in DOMAIN tasks :
        tasks[t].id = u /\ t \in DOMAIN tasks' /\ tasks'[t] # tasks[t]

\* C26: a step that inserts, changes or deletes a list row of a user is a
\* step of a reconciliation of that user; and no step, of a POST, a GET, a
\* reconciliation or a cover upload, removes the profile of a user or the
\* row of an anime.
C26_OnlyOwnListRows ==
    [][/\ \A u \in UserIds :
            RowsOfUser(lists', u) # RowsOfUser(lists, u) => StepOfTaskOf(u)
       /\ {r.user_id : r \in users} \subseteq {r.user_id : r \in users'}
       /\ {r.anime_id : r \in anime} \subseteq {r.anime_id : r \in anime'}]_vars

\* the reconciliation of one user has returned Ok having upserted a list
\* row of its user, that of another user has deleted a row of its own, and
\* both profiles and the anime rows are there
C26_Witness ==
    \E t1, t2 \in DOMAIN tasks :
        /\ tasks[t1].id # tasks[t2].id
        /\ tasks[t1].pc = "Done" /\ tasks[t2].pc = "Done"
        /\ \E k \in DOMAIN tasks[t1].log :
            tasks[t1].log[k].op = "list" /\ tasks[t1].log[k].ok
        /\ tasks[t2].deleted # {} /\ tasks[t2].delFailed = {}
        /\ RowsOfUser(lists, tasks[t1].id) # {}
        /\ RowsOfUser(lists, tasks[t2].id) = {}
        /\ {r.user_id : r \in users} = UserIds

-----------------------------------------------------------------------------
(* C27 *)

\* two reconciliations of the user have both returned Ok with no failed
\* delete or upsert, having fetched different lists
BothDoneOnDifferentLists ==
    /\ Len(tasks) = 2
    /\ \A t \in DOMAIN tasks : tasks[t].pc = "Done" /\ StorageClean(tasks[t])
    /\ tasks[1].lists # tasks[2].lists

\* the lists the later of the two fetches returned: the catalog changes
\* before that fetch only
LaterFetched == remote[RecUser]

\* C27: when two overlapping reconciliations of the same user have fetched
\* different lists and both have returned Ok with no failed delete or
\* upsert, the list rows of the user are those of the media ids retained in
\* the lists fetched later.
C27_LaterFetchWins ==
    BothDoneOnDifferentLists => RowIds(RecUser) = ExpectedIds(LaterFetched)

\* C27, what holds of the rows then: every media id retained in both
\* fetched lists has a row, and each row is of a media id retained in one
C27_BetweenBothFetches ==
    BothDoneOnDifferentLists =>
        /\ ExpectedIds(tasks[1].lists) \cap ExpectedIds(tasks[2].lists)
                \subseteq RowIds(RecUser)
        /\ RowIds(RecUser)
                \subseteq ExpectedIds(tasks[1].lists) \cup ExpectedIds(tasks[2].lists)

\* both have returned Ok, and a media id taken off the lists between the
\* fetches has a row: the task that fetched first upserted it after the
\* scan of the other
C27_StaleRowResurrected ==
    /\ BothDoneOnDifferentLists
    /\ \E t \in DOMAIN tasks : tasks[t].lists = LaterFetched
    /\ RowIds(RecUser) \ ExpectedIds(LaterFetched) # {}

-----------------------------------------------------------------------------
(* C28 *)

\* the task is in its deletion scan and a read of the row stream fails in
\* this step: a call fails that is not a delete
StreamReadFails(t) ==
    /\ tasks[t].pc = "Diffing" /\ tasks'[t] # tasks[t]
    /\ faults' = faults + 1
    /\ tasks'[t].delFailed = tasks[t].delFailed

\* the task ended on a failed read of the row stream
FailedOnStream(t) == tasks[t].pc = "Failed" /\ tasks[t].cause = "stream"

\* C28: a failed read of the row stream ends the task in Failed in that very
\* step, which deletes nothing; the task then stays as it is for good, so it
\* issues no further delete; it has issued no anime upsert, no list row
\* upsert and spawned no cover upload; and the rows whose delete it issued
\* before are gone.
C28_StreamFailureEndsTheRun ==
    /\ [][\A t \in DOMAIN tasks :
            /\ StreamReadFails(t) =>
                /\ tasks'[t].pc = "Failed" /\ tasks'[t].cause = "stream"
                /\ tasks'[t].deleted = tasks[t].deleted
                /\ lists' = lists
            /\ FailedOnStream(t) => tasks'[t] = tasks[t]]_vars
    /\ [](\A t \in DOMAIN tasks :
            FailedOnStream(t) =>
                /\ tasks[t].log = <<>> /\ ImagesOf(t) = {}
                /\ RowIds(tasks[t].id) \cap (tasks[t].deleted \ tasks[t].delFailed) = {}
                /\ ~ENABLED ScanRow(t)
                /\ ~ENABLED UpsertAnimeStep(t) /\ ~ENABLED UpsertListStep(t))

\* the read failed after the delete of one stale row: that row is gone,
\* another stale row is still there, and the retained entries have no row
C28_Witness ==
    \E t \in DOMAIN tasks :
        /\ FailedOnStream(t)
        /\ tasks[t].deleted # {} /\ tasks[t].delFailed = {}
        /\ RowIds(tasks[t].id) \ ExpectedIds(tasks[t].lists) # {}
        /\ ExpectedIds(tasks[t].lists) \ RowIds(tasks[t].id) # {}

-----------------------------------------------------------------------------
(* C29 *)

\* the profile step of the POST failed: upload_to_s3 of the avatar or
\* insert_user returned the error
ProfileStepFailed(req) ==
    req.method = "POST" /\ req.cause \in {"upload_to_s3", "insert_user"}

\* the profile step of the POST fails in this step
ProfileStepFails(k) ==
    /\ reqs[k].pc \in {"Profile", "Save"}
    /\ ~ProfileStepFailed(reqs[k]) /\ ProfileStepFailed(reqs'[k])

\* C29: a POST whose profile step failed is replied 500 and has no task;
\* the step in which it fails writes no profile, anime or list row, deletes
\* none and spawns no task; the request stays as it is from then on; and
\* every task there is was spawned by a POST whose profile step succeeded.
C29_ProfileFailureSpawnsNothing ==
    /\ [](\A k \in DOMAIN reqs :
            ProfileStepFailed(reqs[k]) =>
                /\ reqs[k].pc = "Replied" /\ reqs[k].status = 500
                /\ reqs[k].task = 0)
    /\ [](\A t \in DOMAIN tasks :
            \E k \in DOMAIN reqs :
                /\ reqs[k].task = t /\ ~ProfileStepFailed(reqs[k])
                /\ reqs[k].user # None /\ reqs[k].user[1].id = tasks[t].id)
    /\ [][\A k \in DOMAIN reqs :
            /\ ProfileStepFails(k) =>
                UNCHANGED <<users, anime, lists, tasks, images>>
            /\ ProfileStepFailed(reqs[k]) => reqs'[k] = reqs[k]]_vars

\* a POST of alice was replied 500 on insert_user, her avatar uploaded: no
\* task, no profile of hers, no list row of hers
C29_Witness ==
    \E k \in DOMAIN reqs :
        /\ reqs[k].method = "POST" /\ reqs[k].name = "alice"
        /\ reqs[k].cause = "insert_user" /\ reqs[k].status = 500
        /\ tasks = <<>>
        /\ \E o \in s3 : o.key = "assets/images/user_1.png"
        /\ \A r \in users : r.user_id # RecUser
        /\ ListRowsOf(RecUser) = {}

=============================================================================
